---- MODULE Spec2Model ----
(***************************************************************************)
(* Model of sentry's audit-log services (DatabaseBackedLogService and      *)
(* OutboxBackedLogService, audit_log/services/log/impl.py) and of          *)
(* RoleBasedRecipientStrategy (notifications/.../role_based_recipient_     *)
(* strategy.py).                                                           *)
(*                                                                         *)
(* Python's Optional values are sequences of length at most one: <<>> is   *)
(* None and <<v>> is the value v, so that None, 0 and "" stay distinct     *)
(* and the truthiness tests of the code (`if x:`) can be told from         *)
(* `x is not None`.                                                        *)
(***************************************************************************)
EXTENDS Integers, Sequences, FiniteSets, TLC

VARIABLES
    auth_user,          \* User table: id -> row [last_active]
    entries,            \* AuditLogEntry table, in insertion order
    event,              \* the caller's AuditLogEvent (mutated by the handler)
    origEvent,          \* the event as the caller passed it
    pc,                 \* position of the record_audit_log call
    attempts,           \* entry.save() attempts made by the current call
    result,             \* how the current/last record_audit_log call ended
    entriesAtCall,      \* Len(entries) when the call started
    firstFailure,       \* what the first user-table violation of the call was caused by
    lastMessage,        \* the IntegrityError message of the last failed save of the call
    calls,              \* record_audit_log calls started
    userips,            \* UserIP table: <<user_id, ip_address>> -> values
    ipCall,             \* the last record_user_ip call: event and the row before it
    outbox,             \* RegionOutbox table, in insertion order
    next_object_identifier, \* the outbox object-identifier sequence
    outboxCall,         \* the last OutboxBackedLogService call
    findResult,         \* what the last OutboxBackedLogService.find_last_log returned
    member_by_user_id,  \* RoleBasedRecipientStrategy.member_by_user_id
    strategy,           \* the strategy instances: instance -> [organization, scope, role]
    ret                 \* the last strategy call and what it returned

auditVars == <<auth_user, entries, event, origEvent, pc, attempts, result,
               entriesAtCall, firstFailure, lastMessage, calls>>
ipVars == <<userips, ipCall>>
outboxVars == <<outbox, next_object_identifier, outboxCall, findResult>>
strategyVars == <<member_by_user_id, strategy, ret>>
vars == <<auditVars, ipVars, outboxVars, strategyVars>>

----------------------------------------------------------------------------
(* Python values *)

None == <<>>
Some(v) == <<v>>
Opt(S) == {None} \cup {Some(v) : v \in S}

\* bool(x) of an Optional[int]: None and 0 are falsy
TruthyInt(x) == x # None /\ x[1] # 0
\* bool(x) of an Optional[str]: None and "" are falsy
TruthyStr(x) == x # None /\ x[1] # ""
\* bool(x) of an Optional[object]: only None is falsy
TruthyObj(x) == x # None

----------------------------------------------------------------------------
(* Bounds and domains *)

MaxUserId == 2
MaxAttempts == 4        \* depth at which the recursion is cut (RecursionError)
MaxCalls == 2

MaxTime == 4            \* timestamps are 0..MaxTime, in units of 30 seconds
MaxOutbox == 2          \* outbox messages enqueued in a run

UserIds == 0..MaxUserId
Times == 0..MaxTime

\* datetime.timedelta(minutes=1), in units of 30 seconds
OneMinute == 2

NoRow == [last_active |-> None]

AuditEvents ==
    [organization_id : {1},
     event_id : Opt({1}),
     target_object_id : {Some(7)},
     actor_user_id : Opt(UserIds),
     target_user_id : Opt(UserIds)]

NoEvent ==
    [organization_id |-> 1, event_id |-> None, target_object_id |-> None,
     actor_user_id |-> None, target_user_id |-> None]

----------------------------------------------------------------------------
(* DatabaseBackedLogService.record_audit_log *)

\* AuditLogEntry.from_event(event)
from_event(e) ==
    [organization_id |-> e.organization_id,
     event |-> e.event_id,
     target_object |-> e.target_object_id,
     actor_id |-> e.actor_user_id,
     target_user_id |-> e.target_user_id]

\* a foreign key into auth_user is violated when it is not NULL and names no row
Dangling(ref, users) == ref # None /\ ref[1] \notin DOMAIN users

\* entry.save() under enforce_constraints: "ok", or the IntegrityError's message.
\* NOT NULL is checked on INSERT, the deferred foreign keys when the block ends.
NotNullMessage == "null value in column \"event\" violates not-null constraint"
UserTableMessage == "violates foreign key constraint: not present in table \"auth_user\""

DbSave(entry, users) ==
    IF entry.event = None
    THEN NotNullMessage
    ELSE IF Dangling(entry.actor_id, users) \/ Dangling(entry.target_user_id, users)
    THEN UserTableMessage
    ELSE "ok"

\* a handler that takes every IntegrityError for a user-table violation
AnyIntegrityError(msg) == msg # "ok"

\* '"auth_user"' in error_message
MentionsAuthUser(msg) == msg = UserTableMessage

\* if event.actor_user_id: event.actor_user_id = None  (and the same for target)
NullUserReferences(e) ==
    [e EXCEPT !.actor_user_id = IF TruthyInt(e.actor_user_id) THEN None ELSE @,
              !.target_user_id = IF TruthyInt(e.target_user_id) THEN None ELSE @]

\* the caller invokes record_audit_log(event=e)
RecordAuditLogCall(e) ==
    /\ pc = "idle"
    /\ calls < MaxCalls
    /\ calls' = calls + 1
    /\ event' = e
    /\ origEvent' = e
    /\ attempts' = 0
    /\ result' = "pending"
    /\ entriesAtCall' = Len(entries)
    /\ firstFailure' = [seen |-> FALSE, actor |-> FALSE, target |-> FALSE]
    /\ lastMessage' = ""
    /\ pc' = "save"
    /\ UNCHANGED <<auth_user, entries>>

\* entry = from_event(event); entry.save() succeeds; the call returns None
SaveOk ==
    /\ pc = "save"
    /\ DbSave(from_event(event), auth_user) = "ok"
    /\ entries' = Append(entries, from_event(event))
    /\ attempts' = attempts + 1
    /\ result' = "returned"
    /\ pc' = "idle"
    /\ UNCHANGED <<auth_user, event, origEvent, entriesAtCall, firstFailure, lastMessage, calls>>

\* entry.save() raises an IntegrityError on the user table: the references
\* are nulled and record_audit_log calls itself
SaveUserTableError ==
    /\ pc = "save"
    /\ DbSave(from_event(event), auth_user) # "ok"
    /\ MentionsAuthUser(DbSave(from_event(event), auth_user))
    /\ attempts' = attempts + 1
    /\ lastMessage' = DbSave(from_event(event), auth_user)
    /\ event' = NullUserReferences(event)
    /\ firstFailure' =
         IF firstFailure.seen THEN firstFailure
         ELSE [seen |-> TRUE,
               actor |-> Dangling(event.actor_user_id, auth_user),
               target |-> Dangling(event.target_user_id, auth_user)]
    /\ IF attempts + 1 >= MaxAttempts
       THEN /\ result' = "RecursionError"
            /\ pc' = "idle"
       ELSE /\ result' = result
            /\ pc' = "save"
    /\ UNCHANGED <<auth_user, entries, origEvent, entriesAtCall, calls>>

\* entry.save() raises another IntegrityError: re-raised to the caller
SaveOtherError ==
    /\ pc = "save"
    /\ DbSave(from_event(event), auth_user) # "ok"
    /\ ~MentionsAuthUser(DbSave(from_event(event), auth_user))
    /\ attempts' = attempts + 1
    /\ lastMessage' = DbSave(from_event(event), auth_user)
    /\ result' = "IntegrityError"
    /\ pc' = "idle"
    /\ UNCHANGED <<auth_user, entries, event, origEvent, entriesAtCall, firstFailure, calls>>

\* ON DELETE SET NULL of AuditLogEntry.actor / target_user
SetNullOnDelete(entry, u) ==
    [entry EXCEPT !.actor_id = IF @ = Some(u) THEN None ELSE @,
                  !.target_user_id = IF @ = Some(u) THEN None ELSE @]

\* another process deletes user u
DeleteUser(u) ==
    /\ u \in DOMAIN auth_user
    /\ auth_user' = [x \in DOMAIN auth_user \ {u} |-> auth_user[x]]
    /\ entries' = [i \in 1..Len(entries) |-> SetNullOnDelete(entries[i], u)]
    /\ UNCHANGED <<event, origEvent, pc, attempts, result, entriesAtCall, firstFailure,
                   lastMessage, calls>>

InitAudit ==
    /\ \E S \in SUBSET UserIds : auth_user = [u \in S |-> NoRow]
    /\ entries = <<>>
    /\ event = NoEvent
    /\ origEvent = NoEvent
    /\ pc = "idle"
    /\ attempts = 0
    /\ result = "none"
    /\ entriesAtCall = 0
    /\ firstFailure = [seen |-> FALSE, actor |-> FALSE, target |-> FALSE]
    /\ lastMessage = ""
    /\ calls = 0

----------------------------------------------------------------------------
(* The state of the services a specification does not exercise *)

auditRest == <<entries, event, origEvent, pc, attempts, result, entriesAtCall,
               firstFailure, lastMessage, calls>>

InitIp ==
    /\ userips = <<>>
    /\ ipCall = None

InitOutbox ==
    /\ outbox = <<>>
    /\ next_object_identifier = 1
    /\ outboxCall = None
    /\ findResult = [args |-> None, after |-> 0, value |-> None]

InitStrategy ==
    /\ member_by_user_id = <<>>
    /\ strategy = <<>>
    /\ ret = [op |-> "none"]

----------------------------------------------------------------------------
(* DatabaseBackedLogService.record_user_ip *)

IpUsers == {1, 2}

UserIpEvents ==
    [user_id : IpUsers,
     ip_address : {"10.0.0.1"},
     last_seen : Times,
     country_code : {Some("US")},
     region_code : {Some("CA")}]

\* UserIP.objects.create_or_update(user_id=, ip_address=, values=)
create_or_update(table, e) ==
    LET key == <<e.user_id, e.ip_address>>
        values == [last_seen |-> e.last_seen,
                   country_code |-> e.country_code,
                   region_code |-> e.region_code]
    IN  [k \in DOMAIN table \cup {key} |-> IF k = key THEN values ELSE table[k]]

\* the filter with last_active__lte in place of last_active__lt
IsStaleLte(u, row, e) ==
    /\ u = e.user_id
    /\ row.last_active # None
    /\ row.last_active[1] <= e.last_seen - OneMinute

\* id=event.user_id, last_active__lt=(event.last_seen - timedelta(minutes=1));
\* a NULL last_active matches no comparison
IsStale(u, row, e) ==
    /\ u = e.user_id
    /\ row.last_active # None
    /\ row.last_active[1] < e.last_seen - OneMinute

\* User.objects.filter(...).update(last_active=event.last_seen)
UpdateLastActive(users, e) ==
    [u \in DOMAIN users |->
        IF IsStale(u, users[u], e)
        THEN [users[u] EXCEPT !.last_active = Some(e.last_seen)]
        ELSE users[u]]

RecordUserIp(e) ==
    /\ userips' = create_or_update(userips, e)
    /\ auth_user' = UpdateLastActive(auth_user, e)
    /\ ipCall' = Some([event |-> e, before |-> auth_user])

InitUserIp ==
    /\ auth_user \in [IpUsers -> [last_active : Opt(Times)]]
    /\ entries = <<>>
    /\ event = NoEvent
    /\ origEvent = NoEvent
    /\ pc = "idle"
    /\ attempts = 0
    /\ result = "none"
    /\ entriesAtCall = 0
    /\ firstFailure = [seen |-> FALSE, actor |-> FALSE, target |-> FALSE]
    /\ lastMessage = ""
    /\ calls = 0

----------------------------------------------------------------------------
(* RoleBasedRecipientStrategy *)

\* sentry.roles.get_all(): the organization roles and the scopes each holds
AllRoles ==
    {[id |-> "member", name |-> "Member", scopes |-> {"org:read"}],
     [id |-> "admin", name |-> "Admin", scopes |-> {"org:read", "project:write"}],
     [id |-> "owner", name |-> "Owner",
      scopes |-> {"org:read", "project:write", "org:admin"}]}

RoleById(id) == CHOOSE r \in AllRoles : r.id = id

\* role.has_scope(scope)
has_scope(r, scope) == scope \in r.scopes

\* the OrganizationMember table; user_id is NULL for a pending invite
OrganizationMembers ==
    {[id |-> 1, organization_id |-> 1, user_id |-> Some(1), role |-> "owner", contactable |-> TRUE],
     [id |-> 2, organization_id |-> 1, user_id |-> Some(2), role |-> "member", contactable |-> TRUE],
     [id |-> 3, organization_id |-> 1, user_id |-> Some(3), role |-> "admin", contactable |-> FALSE],
     [id |-> 4, organization_id |-> 1, user_id |-> None, role |-> "member", contactable |-> FALSE],
     [id |-> 5, organization_id |-> 1, user_id |-> Some(4), role |-> "admin", contactable |-> TRUE],
     [id |-> 6, organization_id |-> 2, user_id |-> Some(1), role |-> "member", contactable |-> TRUE],
     [id |-> 7, organization_id |-> 2, user_id |-> Some(2), role |-> "admin", contactable |-> TRUE]}

Instances == {"a", "b"}
Scopes == Opt({"", "project:write", "org:billing"})
Roles == Opt({RoleById("member"), RoleById("owner")})
Actors == [actor_type : {"USER", "TEAM"}, id : {1, 2, 3}]
SettingsUrls == {"https://sentry.io/settings/"}

\* OrganizationMember.objects.get(user_id=, organization=): the matching rows
MembersOf(user_id, organization) ==
    {m \in OrganizationMembers :
        m.user_id = Some(user_id) /\ m.organization_id = organization}

\* OrganizationMember.objects.get_contactable_members_for_org(organization_id)
get_contactable_members_for_org(organization) ==
    {m \in OrganizationMembers : m.organization_id = organization /\ m.contactable}

\* get_member raises OrganizationMember.DoesNotExist
GetMemberRaises(i, actor) ==
    \/ actor.actor_type # "USER"
    \/ /\ actor.id \notin DOMAIN member_by_user_id
       /\ MembersOf(actor.id, strategy[i].organization) = {}

\* the cache after get_member
GetMemberCache(i, actor) ==
    IF actor.id \in DOMAIN member_by_user_id
    THEN member_by_user_id
    ELSE [u \in DOMAIN member_by_user_id \cup {actor.id} |->
            IF u = actor.id
            THEN CHOOSE m \in MembersOf(actor.id, strategy[i].organization) : TRUE
            ELSE member_by_user_id[u]]

\* get_member(user) on instance i; member_by_user_id is the class attribute
\* of line 21, which no instance shadows
get_member(i, actor) ==
    /\ IF GetMemberRaises(i, actor)
       THEN /\ ret' = [op |-> "get_member", inst |-> i, user_id |-> actor.id,
                       raised |-> TRUE]
            /\ UNCHANGED member_by_user_id
       ELSE /\ member_by_user_id' = GetMemberCache(i, actor)
            /\ ret' = [op |-> "get_member", inst |-> i, user_id |-> actor.id,
                       raised |-> FALSE, value |-> member_by_user_id'[actor.id]]
    /\ UNCHANGED strategy

\* the cache after set_member_in_cache(member)
SetMemberCache(cache, member) ==
    IF member.user_id # None
    THEN [u \in DOMAIN cache \cup {member.user_id[1]} |->
            IF u = member.user_id[1] THEN member ELSE cache[u]]
    ELSE cache

\* set_member_in_cache(member) on instance i, with a member of its organization
set_member_in_cache(i, member) ==
    /\ member.organization_id = strategy[i].organization
    /\ member_by_user_id' = SetMemberCache(member_by_user_id, member)
    /\ ret' = [op |-> "set_member_in_cache", inst |-> i]
    /\ UNCHANGED strategy

\* valid_roles where the role wins when both are set
valid_roles_role_first(s) ==
    IF TruthyObj(s.role)
    THEN {s.role[1].id}
    ELSE IF TruthyStr(s.scope)
    THEN {r.id : r \in {x \in AllRoles : has_scope(x, s.scope[1])}}
    ELSE {}

\* valid_roles of determine_member_recipients
valid_roles(s) ==
    IF TruthyObj(s.role) /\ ~TruthyStr(s.scope)
    THEN {s.role[1].id}
    ELSE IF TruthyStr(s.scope)
    THEN {r.id : r \in {x \in AllRoles : has_scope(x, s.scope[1])}}
    ELSE {}

\* which branch of determine_member_recipients chooses the members
SelectedBy(s) ==
    IF ~TruthyStr(s.scope) /\ ~TruthyObj(s.role)
    THEN "all"
    ELSE IF TruthyObj(s.role) /\ ~TruthyStr(s.scope)
    THEN "role"
    ELSE IF TruthyStr(s.scope)
    THEN "scope"
    ELSE "none"

\* determine_member_recipients() of a strategy s
determine_member_recipients(s) ==
    LET members == get_contactable_members_for_org(s.organization)
    IN  IF ~TruthyStr(s.scope) /\ ~TruthyObj(s.role)
        THEN members
        ELSE {m \in members : m.role \in valid_roles(s)}

DetermineMemberRecipients(i) ==
    /\ ret' = [op |-> "determine_member_recipients", inst |-> i,
               value |-> determine_member_recipients(strategy[i])]
    /\ UNCHANGED <<member_by_user_id, strategy>>

\* the cache after set_member_in_cache of every member of a set (the members
\* of one organization have different user ids, so the order does not matter)
SetMembersCache(cache, members) ==
    LET ids == {m.user_id[1] : m \in {x \in members : x.user_id # None}}
    IN  [u \in DOMAIN cache \cup ids |->
            IF u \in ids
            THEN CHOOSE m \in members : m.user_id = Some(u)
            ELSE cache[u]]

\* determine_recipients(): the members are cached, the users of their ids returned
determine_recipients(i) ==
    LET members == determine_member_recipients(strategy[i])
    IN  /\ member_by_user_id' = SetMembersCache(member_by_user_id, members)
        /\ ret' = [op |-> "determine_recipients", inst |-> i,
                   value |-> {m.user_id[1] : m \in {x \in members : TruthyInt(x.user_id)}}]
        /\ UNCHANGED strategy

\* build_notification_footer_from_settings_url(settings_url): the parts of the text
footer(s, settings_url) ==
    IF TruthyStr(s.scope) /\ ~TruthyObj(s.role)
    THEN <<"You are receiving this notification because you have the scope ",
           s.scope[1], " | ", settings_url>>
    ELSE <<"You are receiving this notification because you're listed as an organization ",
           IF TruthyObj(s.role) THEN s.role[1].name ELSE "Member", " | ", settings_url>>

build_notification_footer_from_settings_url(i, settings_url) ==
    /\ ret' = [op |-> "footer", inst |-> i, url |-> settings_url,
               value |-> footer(strategy[i], settings_url)]
    /\ UNCHANGED <<member_by_user_id, strategy>>

\* two strategy instances, of one class or of two, for two organizations
InitStrategies ==
    /\ member_by_user_id = <<>>
    /\ strategy \in [Instances -> [organization : {1, 2}, scope : Scopes, role : Roles]]
    /\ strategy["a"].organization = 1
    /\ ret = [op |-> "none"]

----------------------------------------------------------------------------
(* OutboxBackedLogService *)

OutboxAuditEvents ==
    [organization_id : {1, 2},
     event_id : {Some(1), Some(2)},
     target_object_id : {Some(7)},
     actor_user_id : {Some(1)},
     target_user_id : {None}]

OutboxUserIpEvents == {e \in UserIpEvents : e.last_seen \in {0, MaxTime}}

\* the row sharded by the actor instead of the organization
AuditLogOutboxByActor(e, object_identifier) ==
    [shard_scope |-> "AUDIT_LOG_SCOPE",
     shard_identifier |-> e.actor_user_id[1],
     category |-> "AUDIT_LOG_EVENT",
     object_identifier |-> object_identifier,
     payload |-> e]

\* OutboxBackedLogService.record_audit_log: the RegionOutbox row it saves
AuditLogOutbox(e, object_identifier) ==
    [shard_scope |-> "AUDIT_LOG_SCOPE",
     shard_identifier |-> e.organization_id,
     category |-> "AUDIT_LOG_EVENT",
     object_identifier |-> object_identifier,
     payload |-> e]

\* OutboxBackedLogService.record_user_ip: the RegionOutbox row it saves
UserIpOutbox(e) ==
    [shard_scope |-> "USER_IP_SCOPE",
     shard_identifier |-> e.user_id,
     category |-> "USER_IP_EVENT",
     object_identifier |-> e.user_id,
     payload |-> e]

OutboxRecordAuditLog(e) ==
    /\ Len(outbox) < MaxOutbox
    /\ outbox' = Append(outbox, AuditLogOutbox(e, next_object_identifier))
    /\ next_object_identifier' = next_object_identifier + 1
    /\ outboxCall' = Some([op |-> "record_audit_log", event |-> e, n |-> Len(outbox) + 1])
    /\ UNCHANGED <<findResult, auth_user, auditRest, ipVars>>

OutboxRecordUserIp(e) ==
    /\ Len(outbox) < MaxOutbox
    /\ outbox' = Append(outbox, UserIpOutbox(e))
    /\ outboxCall' = Some([op |-> "record_user_ip", event |-> e, n |-> Len(outbox) + 1])
    /\ UNCHANGED <<next_object_identifier, findResult, auth_user, auditRest, ipVars>>

\* the audit-log messages of the outbox that a find_last_log query matches
MatchingOutbox(organization_id, target_object_id, event_code) ==
    {i \in 1..Len(outbox) :
        /\ outbox[i].category = "AUDIT_LOG_EVENT"
        /\ outbox[i].payload.organization_id = organization_id
        /\ outbox[i].payload.target_object_id = target_object_id
        /\ outbox[i].payload.event_id = Some(event_code)}

\* a find_last_log that answers from the enqueued events
FindLastLogInOutbox(organization_id, target_object_id, event_code, data) ==
    LET found == MatchingOutbox(organization_id, target_object_id, event_code)
    IN  IF found = {} THEN None
        ELSE Some(outbox[CHOOSE i \in found : \A j \in found : j <= i].payload)

\* OutboxBackedLogService.find_last_log: return None
OutboxFindLastLogResult(organization_id, target_object_id, event_code, data) == None

OutboxFindLastLog(organization_id, target_object_id, event_code, data) ==
    /\ findResult' = [args |-> Some(<<organization_id, target_object_id, event_code, data>>),
                      after |-> Len(outbox),
                      value |-> OutboxFindLastLogResult(organization_id, target_object_id,
                                                        event_code, data)]
    /\ UNCHANGED <<outbox, next_object_identifier, outboxCall, auth_user, auditRest, ipVars>>

----------------------------------------------------------------------------
(* Specifications: one per service *)

InitAuditSpec == InitAudit /\ InitIp /\ InitOutbox /\ InitStrategy

NextAudit ==
    \/ \E e \in AuditEvents : RecordAuditLogCall(e) /\ UNCHANGED <<ipVars, outboxVars, strategyVars>>
    \/ SaveOk /\ UNCHANGED <<ipVars, outboxVars, strategyVars>>
    \/ SaveUserTableError /\ UNCHANGED <<ipVars, outboxVars, strategyVars>>
    \/ SaveOtherError /\ UNCHANGED <<ipVars, outboxVars, strategyVars>>
    \/ \E u \in UserIds : DeleteUser(u) /\ UNCHANGED <<ipVars, outboxVars, strategyVars>>

SpecAudit == InitAuditSpec /\ [][NextAudit]_vars

InitUserIpSpec == InitUserIp /\ InitIp /\ InitOutbox /\ InitStrategy

NextUserIp ==
    \E e \in UserIpEvents :
        RecordUserIp(e) /\ UNCHANGED <<auditRest, outboxVars, strategyVars>>

SpecUserIp == InitUserIpSpec /\ [][NextUserIp]_vars

InitOutboxSpec ==
    /\ InitUserIpSpec
    /\ \A u \in IpUsers : auth_user[u].last_active \in {None, Some(0)}

NextOutbox ==
    \/ \E e \in OutboxAuditEvents : OutboxRecordAuditLog(e) /\ UNCHANGED strategyVars
    \/ \E e \in OutboxUserIpEvents : OutboxRecordUserIp(e) /\ UNCHANGED strategyVars
    \/ \E o \in {1, 2}, t \in {Some(7)}, c \in {1}, d \in {None, Some("d")} :
          OutboxFindLastLog(o, t, c, d) /\ UNCHANGED strategyVars

SpecOutbox == InitOutboxSpec /\ [][NextOutbox]_vars

InitStrategySpec ==
    /\ auth_user = <<>>
    /\ entries = <<>>
    /\ event = NoEvent
    /\ origEvent = NoEvent
    /\ pc = "idle"
    /\ attempts = 0
    /\ result = "none"
    /\ entriesAtCall = 0
    /\ firstFailure = [seen |-> FALSE, actor |-> FALSE, target |-> FALSE]
    /\ lastMessage = ""
    /\ calls = 0
    /\ InitIp
    /\ InitOutbox
    /\ InitStrategies

NextStrategy ==
    \/ \E i \in Instances, a \in Actors :
          get_member(i, a) /\ UNCHANGED <<auditVars, ipVars, outboxVars>>
    \/ \E i \in Instances, m \in OrganizationMembers :
          set_member_in_cache(i, m) /\ UNCHANGED <<auditVars, ipVars, outboxVars>>
    \/ \E i \in Instances :
          DetermineMemberRecipients(i) /\ UNCHANGED <<auditVars, ipVars, outboxVars>>
    \/ \E i \in Instances :
          determine_recipients(i) /\ UNCHANGED <<auditVars, ipVars, outboxVars>>
    \/ \E i \in Instances, url \in SettingsUrls :
          build_notification_footer_from_settings_url(i, url)
            /\ UNCHANGED <<auditVars, ipVars, outboxVars>>

SpecStrategy == InitStrategySpec /\ [][NextStrategy]_vars

----------------------------------------------------------------------------
(* Claims about DatabaseBackedLogService.record_audit_log *)

\* the call has ended (returned or raised)
AuditCallEnded == pc = "idle" /\ result \notin {"none", "pending"}

\* the entry the ended call persisted
PersistedEntry == entries[entriesAtCall + 1]

\* C1: a record_audit_log call makes at most two save attempts: after the one
\* retry a further failure propagates instead of being retried again.
C1_AtMostTwoSaveAttempts == attempts <= 2

\* C2: when a user reference of the event names a user that does not exist at
\* save time, the call returns without raising and persists exactly one
\* entry, with its user references nulled; and no persisted entry ever
\* references a user that does not exist.
C2_DeletedUserIsNulledNotRaised ==
    /\ (AuditCallEnded /\ firstFailure.seen) =>
          /\ result = "returned"
          /\ Len(entries) = entriesAtCall + 1
          /\ firstFailure.actor => PersistedEntry.actor_id = None
          /\ firstFailure.target => PersistedEntry.target_user_id = None
    /\ \A i \in 1..Len(entries) :
          /\ ~Dangling(entries[i].actor_id, auth_user)
          /\ ~Dangling(entries[i].target_user_id, auth_user)

\* C7: when the user-table violation was caused by one reference only, the
\* other reference (to a user that still exists) is kept, in the caller's
\* event and in the persisted entry.
C7_OnlyOffendingReferenceNulled ==
    (AuditCallEnded /\ result = "returned" /\ attempts = 2) =>
       /\ (firstFailure.actor /\ ~firstFailure.target
            /\ ~Dangling(origEvent.target_user_id, auth_user)) =>
              /\ event.target_user_id = origEvent.target_user_id
              /\ PersistedEntry.target_user_id = origEvent.target_user_id
       /\ (firstFailure.target /\ ~firstFailure.actor
            /\ ~Dangling(origEvent.actor_user_id, auth_user)) =>
              /\ event.actor_user_id = origEvent.actor_user_id
              /\ PersistedEntry.actor_id = origEvent.actor_user_id

\* C8: when a save fails with an integrity error that does not concern the
\* user table, the call ends there with that error: no retry, the event's
\* user references as the caller passed them, no entry persisted.
C8_OtherIntegrityErrorPropagates ==
    lastMessage = NotNullMessage =>
       /\ pc = "idle"
       /\ result = "IntegrityError"
       /\ attempts = 1
       /\ event = origEvent
       /\ Len(entries) = entriesAtCall

C8_Witness ==
    /\ lastMessage = NotNullMessage
    /\ result = "IntegrityError"
    /\ TruthyInt(origEvent.actor_user_id)
    /\ Dangling(origEvent.target_user_id, auth_user)

----------------------------------------------------------------------------
(* Claims about DatabaseBackedLogService.record_user_ip *)

\* C5: a record_user_ip call sets the user's last_active to event.last_seen
\* only when the stored value is strictly more than one minute earlier than
\* event.last_seen, and leaves it unchanged otherwise; last_active never
\* decreases, and no other user's row changes.
C5_LastActiveNeverDowngraded ==
    ipCall # None =>
        LET e == ipCall[1].event
            before == ipCall[1].before
            b == before[e.user_id].last_active
            a == auth_user[e.user_id].last_active
            moreThanAMinuteEarlier == b # None /\ e.last_seen - b[1] > OneMinute
        IN  /\ moreThanAMinuteEarlier => a = Some(e.last_seen)
            /\ ~moreThanAMinuteEarlier => a = b
            /\ b # None => (a # None /\ a[1] >= b[1])
            /\ \A u \in DOMAIN auth_user : u # e.user_id => auth_user[u] = before[u]

\* a call whose last_seen is exactly one minute after the stored last_active
C5_Witness ==
    /\ ipCall # None
    /\ ipCall[1].before[ipCall[1].event.user_id].last_active # None
    /\ ipCall[1].event.last_seen
          = ipCall[1].before[ipCall[1].event.user_id].last_active[1] + OneMinute
    /\ auth_user[ipCall[1].event.user_id] = ipCall[1].before[ipCall[1].event.user_id]

----------------------------------------------------------------------------
(* Claims about OutboxBackedLogService *)

\* the message a call is expected to enqueue, but for its object identifier
ExpectedOutbox(c, m) ==
    IF c.op = "record_audit_log"
    THEN /\ m.shard_scope = "AUDIT_LOG_SCOPE"
         /\ m.category = "AUDIT_LOG_EVENT"
         /\ m.shard_identifier = c.event.organization_id
         /\ m.payload = c.event
    ELSE /\ m.shard_scope = "USER_IP_SCOPE"
         /\ m.category = "USER_IP_EVENT"
         /\ m.shard_identifier = c.event.user_id
         /\ m.object_identifier = c.event.user_id
         /\ m.payload = c.event

\* C9: each record_audit_log / record_user_ip call of the outbox-backed
\* service appends exactly one message, of the call's scope, category, shard
\* identifier and payload, leaves the local AuditLogEntry, UserIP and User
\* tables unchanged, and no step removes or changes an enqueued message.
C9_OutboxOnlyEnqueues ==
    [][/\ Len(outbox') >= Len(outbox)
       /\ SubSeq(outbox', 1, Len(outbox)) = outbox
       /\ outboxCall' # outboxCall =>
            /\ outbox' = Append(outbox, outbox'[Len(outbox')])
            /\ ExpectedOutbox(outboxCall'[1], outbox'[Len(outbox')])
            /\ UNCHANGED <<auth_user, entries, userips>>]_vars

\* both kinds of call have been made
C9_Witness ==
    /\ Len(outbox) = 2
    /\ outbox[1].category = "USER_IP_EVENT"
    /\ outbox[2].category = "AUDIT_LOG_EVENT"
    /\ outboxCall[1].op = "record_audit_log"
    /\ outbox[2].payload.actor_user_id # Some(outbox[2].payload.organization_id)

\* C10: OutboxBackedLogService.find_last_log returns None whatever its
\* arguments and whatever has been enqueued before.
C10_FindLastLogReturnsNone ==
    findResult.args # None => findResult.value = None

\* find_last_log called right after a record_audit_log of a matching event
C10_Witness ==
    /\ findResult.args # None
    /\ findResult.after = Len(outbox)
    /\ outboxCall # None
    /\ outboxCall[1].op = "record_audit_log"
    /\ outboxCall[1].n = Len(outbox)
    /\ Len(outbox) \in MatchingOutbox(findResult.args[1][1], findResult.args[1][2],
                                       findResult.args[1][3])

----------------------------------------------------------------------------
(* Claims about RoleBasedRecipientStrategy *)

\* C3: get_member(user) on an instance returns the member of that instance's
\* own organization for that user id, whatever was done on other instances.
C3_CacheIsInstanceScoped ==
    (ret.op = "get_member" /\ ~ret.raised) =>
        /\ ret.value.user_id = Some(ret.user_id)
        /\ ret.value.organization_id = strategy[ret.inst].organization

\* the scope, or the role, is set: not None and not empty
ScopeSet(s) == s.scope # None /\ s.scope # Some("")
RoleSet(s) == s.role # None

\* C4: the footer is the 'you have the scope <scope>' text whenever the scope
\* chose the recipients (scope set, a role set or not), and the 'listed as an
\* organization <role name>' text when the role chose them or neither is set.
C4_FooterMatchesSelection ==
    ret.op = "footer" =>
        LET s == strategy[ret.inst]
        IN  /\ SelectedBy(s) = "scope" =>
                 ret.value = <<"You are receiving this notification because you have the scope ",
                               s.scope[1], " | ", ret.url>>
            /\ SelectedBy(s) = "role" =>
                 ret.value = <<"You are receiving this notification because you're listed as an organization ",
                               s.role[1].name, " | ", ret.url>>
            /\ SelectedBy(s) = "all" =>
                 ret.value = <<"You are receiving this notification because you're listed as an organization ",
                               "Member", " | ", ret.url>>

\* the roles holding a scope
RolesHolding(scope) == {r.id : r \in {x \in AllRoles : scope \in x.scopes}}

\* C6: determine_member_recipients returns, of the organization's contactable
\* members: all when neither scope nor role is set; those of the configured
\* role when only the role is set; those whose role holds the scope when the
\* scope is set, the role being ignored.
C6_RecipientsByScopeOrRole ==
    ret.op = "determine_member_recipients" =>
        LET s == strategy[ret.inst]
            contactable == {m \in OrganizationMembers :
                              m.organization_id = s.organization /\ m.contactable}
        IN  /\ (~ScopeSet(s) /\ ~RoleSet(s)) => ret.value = contactable
            /\ (~ScopeSet(s) /\ RoleSet(s)) =>
                 ret.value = {m \in contactable : m.role = s.role[1].id}
            /\ ScopeSet(s) =>
                 ret.value = {m \in contactable : m.role \in RolesHolding(s.scope[1])}

\* scope and role both set, and the scope's members are not the role's
C6_Witness ==
    /\ ret.op = "determine_member_recipients"
    /\ ScopeSet(strategy[ret.inst])
    /\ RoleSet(strategy[ret.inst])
    /\ ret.value # {}
    /\ \A m \in ret.value : m.role # strategy[ret.inst].role[1].id

====
